---- MODULE Spec2Model ----
(***************************************************************************)
(* State-machine model of the voice-agent front end.                       *)
(*                                                                         *)
(*   Home (frontend/app/page.tsx): the WebSocket session with its          *)
(*   reconnect timer, the inbound message handler, speech synthesis,       *)
(*   push-to-talk recognition and the three-field form.                    *)
(*                                                                         *)
(*   FormManager (components/FormManager): manual edits and submission of  *)
(*   the store's current form.                                             *)
(*                                                                         *)
(* Every handler of the source is one action.  React state is modelled by  *)
(* the value it has once the handler has returned.                         *)
(***************************************************************************)
EXTENDS Integers, Sequences, FiniteSets, Bags, TLC

VARIABLES
    phase,              \* "init" | "strict_first" | "mounted" | "unmounted"
    strict,             \* effects are double-invoked on mount (reactStrictMode)
    connectionStatus,   \* useState<ConnectionStatus>
    wsRef,              \* useRef<WebSocket | null>: NoSocket or a socket
    sock,               \* the browser's WebSocket objects, by slot
    connectSent,        \* connect frames written to each socket
    timers,             \* pending setTimeout callbacks (a bag)
    consecFailures,     \* closures/throws since the last successful open (saturating)
    connectSeq,         \* number of connectWebSocket calls, modulo SeqMod
    formData,           \* useState<FormData>: key -> value
    chatHistory,        \* useState<ChatMessage[]>
    isSubmitted,        \* useState<boolean>
    uncaught,           \* an exception has escaped a callback
    lastDiscard,        \* kind of the last frame that matched no branch or was caught
    recordingStatus,    \* useState<RecordingStatus>
    recognition,        \* useState: TRUE when a webkitSpeechRecognition engine was created
    recog,              \* the engine's session: "inactive" | "active" | "resulted" | "errored"
    micPending,         \* getUserMedia requests not yet resolved
    chatSent,           \* chat frames written to the transport, in order
    isAISpeaking,       \* useState<boolean>
    speechSynthesisRef, \* useRef<SpeechSynthesisUtterance | null>: NoUtterance or its text
    synthQueue,         \* the browser's speechSynthesis queue; its head is the one being spoken
    synthStarted,       \* the head of the queue has fired its start event
    synthLate,          \* cancelled utterances whose end/error event is still to be delivered
    currentForm,        \* useCurrentForm(): the store's form, NoForm when none is open
    localValue,         \* FormField useState, by field name
    isEditing,          \* FormField useState<boolean>, by field name
    isSubmitting,       \* FormManager useState<boolean>
    typedText,          \* what the user has typed into a row since Edit, NoText if nothing
    audioLevel,         \* useState<number>, as the byte average n of n/255
    audioContextRef,    \* useRef<AudioContext | null>: NoContext or a context
    analyserRef,        \* useRef<AnalyserNode | null>: TRUE when set
    ctx,                \* the browser's AudioContext objects, by slot
    streams,            \* MediaStreams obtained and not stopped (saturating)
    closureStatus,      \* recordingStatus as captured by the render startRecording ran in
    samplerArmed,       \* a requestAnimationFrame(updateAudioLevel) is pending
    isConnected,        \* RTVIVoiceInterface useState<boolean>
    isListening,        \* RTVIVoiceInterface useState<boolean>
    isProcessing,       \* RTVIVoiceInterface useState<boolean>
    amplitude,          \* RTVIVoiceInterface useState<number>, as an exact fraction
    micPermission,      \* RTVIVoiceInterface useState<boolean | null>
    error,              \* RTVIVoiceInterface useState<string | null>
    link,               \* the RTVI client's transport: "down" | "connecting" | "up" | "closing"
    pendingStart,       \* startListening() promises not yet settled
    pendingStop         \* stopListening() promises not yet settled

connVars == <<connectionStatus, wsRef, sock, connectSent, consecFailures, connectSeq>>

formVars == <<formData, chatHistory, isSubmitted>>

audioVars == <<audioLevel, audioContextRef, analyserRef, ctx, streams, closureStatus,
               samplerArmed>>

recVars == <<recordingStatus, recog, micPending, chatSent, audioVars>>

speechVars == <<isAISpeaking, speechSynthesisRef, synthQueue, synthStarted, synthLate>>

fmVars == <<currentForm, localValue, isEditing, isSubmitting, typedText>>

rtviVars == <<isConnected, isListening, isProcessing, amplitude, micPermission, error, link,
              pendingStart, pendingStop>>

vars == <<phase, strict, recognition, uncaught, lastDiscard, timers, connVars, formVars, recVars,
          speechVars, fmVars, rtviVars>>

----------------------------------------------------------------------------
(* Bounds of the model *)

MaxSockets == 2

MaxFailures == 2

SeqMod == 3

MaxChat == 2

MaxQueue == 2

MaxLate == 1

MaxMic == 1

MaxSent == 1

MaxSubmitting == 1

MaxContexts == 2

MaxStreams == 2

(* Program constants *)

ReconnectDelayMs == 3000

WelcomeSpeakDelayMs == 500

SubmitSpeakDelayMs == 100

Null == "null"

Undef == "undefined"

Fields == {"name", "phone", "jobTitle"}

\* Texts are sequences of tokens, so that a template can interpolate values.
Text(x) == <<x>>

NoUtterance == <<>>

WelcomeText == Text("welcome")

SubmittedText == Text("form_submitted_ok")

Truthy(v) == v \notin {Undef, ""}

Sockets == 1..MaxSockets

NoSocket == 0

Contexts == 1..MaxContexts

NoContext == 0

----------------------------------------------------------------------------
(* setTimeout *)

Timer(fn, delay, arg) == [fn |-> fn, delay |-> delay, arg |-> arg]

ReconnectTimer == Timer("connectWebSocket", ReconnectDelayMs, <<>>)

AddTimer(bag, t) == bag (+) SetToBag({t})

RemoveTimer(bag, t) == bag (-) SetToBag({t})

PendingReconnects == CopiesIn(ReconnectTimer, timers)

----------------------------------------------------------------------------
(* The WebSocket session: connectWebSocket and the socket's handlers *)

FreeSlots == {s \in Sockets : sock[s] = "none"}

NewSocket == CHOOSE s \in FreeSlots : \A t \in FreeSlots : s <= t

Live(s) == sock[s] \in {"connecting", "open"}

Bump(n) == IF n < MaxFailures THEN n + 1 ELSE n

\* connectWebSocket with a catch block that gives up instead of re-arming the timer.
connectWebSocketNoRetry(throws, pending) ==
    /\ connectSeq' = (connectSeq + 1) % SeqMod
    /\ IF throws
       THEN /\ connectionStatus' = "disconnected"
            /\ timers' = pending
            /\ consecFailures' = Bump(consecFailures)
            /\ sock' = sock
       ELSE /\ FreeSlots # {}
            /\ connectionStatus' = "connecting"
            /\ timers' = pending
            /\ consecFailures' = consecFailures
            /\ sock' = [sock EXCEPT ![NewSocket] = "connecting"]

\* connectWebSocket(): `throws` is whether `new WebSocket(...)` throws.
\* `pending` is the timer bag the call starts from.
connectWebSocket(throws, pending) ==
    /\ connectSeq' = (connectSeq + 1) % SeqMod
    /\ IF throws
       THEN /\ connectionStatus' = "disconnected"
            /\ timers' = AddTimer(pending, ReconnectTimer)
            /\ consecFailures' = Bump(consecFailures)
            /\ sock' = sock
       ELSE /\ FreeSlots # {}
            /\ connectionStatus' = "connecting"
            /\ timers' = pending
            /\ consecFailures' = consecFailures
            /\ sock' = [sock EXCEPT ![NewSocket] = "connecting"]

----------------------------------------------------------------------------
(* The form store read by FormManager (lib/store, lib/voice-client) *)

SubmittingResetMs == 2000

NoFields == [k \in {} |-> ""]

NoText == "untyped"

\* A form type's fields: name -> required
Template(formType) ==
    CASE formType = "contact"      -> [name |-> TRUE, email |-> TRUE, message |-> FALSE]
      [] formType = "registration" -> [name |-> TRUE, email |-> TRUE, phone |-> TRUE]
      [] formType = "feedback"     -> [rating |-> TRUE, comments |-> FALSE]
      [] formType = "survey"       -> [rating |-> TRUE]

FormTypes == {"contact", "registration", "feedback", "survey"}

FormField(value, required) == [value |-> value, required |-> required, filled |-> value # ""]

\* filled-required-count / total-required-count x 100, as an exact fraction
CompletionPercentage(fields) ==
    [num |-> 100 * Cardinality({k \in DOMAIN fields : fields[k].required /\ fields[k].filled}),
     den |-> Cardinality({k \in DOMAIN fields : fields[k].required})]

Validate(fields) == \A k \in DOMAIN fields : fields[k].required => fields[k].filled

\* Validity and completion are recomputed from the fields.
Recompute(form) ==
    [form EXCEPT !.completionPercentage = CompletionPercentage(form.fields),
                 !.isValid = Validate(form.fields)]

NoForm ==
    [type |-> "none", fields |-> NoFields, completionPercentage |-> [num |-> 0, den |-> 1],
     isValid |-> FALSE, submitted |-> FALSE]

FormOf(formType, values) ==
    Recompute([type |-> formType,
               fields |-> [k \in DOMAIN Template(formType) |->
                              FormField(values[k], Template(formType)[k])],
               completionPercentage |-> [num |-> 0, den |-> 1],
               isValid |-> FALSE,
               submitted |-> FALSE])

NewForm(formType) == FormOf(formType, [k \in DOMAIN Template(formType) |-> ""])

\* The one mutation entry point of the store
MutateField(form, fieldName, value) ==
    Recompute([form EXCEPT !.fields[fieldName] = FormField(value, @.required)])

Init ==
    /\ phase = "init"
    /\ strict = FALSE
    /\ connectionStatus = "disconnected"
    /\ wsRef = NoSocket
    /\ sock = [s \in Sockets |-> "none"]
    /\ connectSent = [s \in Sockets |-> 0]
    /\ timers = EmptyBag
    /\ consecFailures = 0
    /\ connectSeq = 0
    /\ formData = [k \in Fields |-> ""]
    /\ chatHistory = <<>>
    /\ isSubmitted = FALSE
    /\ uncaught = FALSE
    /\ lastDiscard = "none"
    /\ recordingStatus = "idle"
    /\ recognition = FALSE
    /\ recog = "inactive"
    /\ micPending = 0
    /\ chatSent = <<>>
    /\ isAISpeaking = FALSE
    /\ speechSynthesisRef = NoUtterance
    /\ synthQueue = <<>>
    /\ synthStarted = FALSE
    /\ synthLate = 0
    /\ currentForm = NoForm
    /\ localValue = NoFields
    /\ isEditing = NoFields
    /\ isSubmitting = FALSE
    /\ typedText = NoFields
    /\ audioLevel = 0
    /\ audioContextRef = NoContext
    /\ analyserRef = FALSE
    /\ ctx = [c \in Contexts |-> "none"]
    /\ streams = 0
    /\ closureStatus = "idle"
    /\ samplerArmed = FALSE
    /\ isConnected = FALSE
    /\ isListening = FALSE
    /\ isProcessing = FALSE
    /\ amplitude = [num |-> 0, den |-> 1]
    /\ micPermission = Null
    /\ error = Null
    /\ link = "down"
    /\ pendingStart = 0
    /\ pendingStop = 0

Running == phase \in {"mounted", "unmounted"}

----------------------------------------------------------------------------
(* Speech synthesis: speakText and the utterance callbacks *)

Min(a, b) == IF a < b THEN a ELSE b

\* Events the browser may still deliver for the utterances dropped by
\* speechSynthesis.cancel(): one for the utterance handed to the engine, and
\* possibly one for each utterance still waiting behind it.
LateChoices(q) == {n \in 0..Len(q) : n >= Min(1, Len(q))}

\* speakText without its cancel of the utterance in progress.
speakTextNoCancel(text, n) ==
    /\ speechSynthesisRef' = text
    /\ UNCHANGED isAISpeaking
    /\ n = 0
    /\ Len(synthQueue) < MaxQueue
    /\ synthQueue' = Append(synthQueue, text)
    /\ UNCHANGED <<synthStarted, synthLate>>

\* speakText(text): `n` is the number of late events the cancel leaves behind.
speakText(text, n) ==
    /\ speechSynthesisRef' = text
    /\ UNCHANGED isAISpeaking
    /\ IF speechSynthesisRef # NoUtterance
       THEN /\ n \in LateChoices(synthQueue)
            /\ synthQueue' = <<text>>
            /\ synthStarted' = FALSE
            /\ synthLate' = Min(synthLate + n, MaxLate)
       ELSE /\ n = 0
            /\ Len(synthQueue) < MaxQueue
            /\ synthQueue' = Append(synthQueue, text)
            /\ UNCHANGED <<synthStarted, synthLate>>

\* speak is Null-like (NoUtterance) when the handler does not speak.
MaybeSpeak(text, n) ==
    IF text = NoUtterance
    THEN n = 0 /\ UNCHANGED speechVars
    ELSE speakText(text, n)

\* utterance.onstart of the head of the queue
UtteranceStart ==
    /\ Running
    /\ synthQueue # <<>>
    /\ ~synthStarted
    /\ synthStarted' = TRUE
    /\ isAISpeaking' = TRUE
    /\ UNCHANGED <<speechSynthesisRef, synthQueue, synthLate>>
    /\ UNCHANGED <<phase, strict, recognition, uncaught, lastDiscard, timers, connVars, formVars, recVars>>
    /\ UNCHANGED fmVars
    /\ UNCHANGED rtviVars

\* utterance.onend / utterance.onerror of the head of the queue
UtteranceEnd ==
    /\ Running
    /\ synthQueue # <<>>
    /\ synthQueue' = Tail(synthQueue)
    /\ synthStarted' = FALSE
    /\ isAISpeaking' = FALSE
    /\ speechSynthesisRef' = NoUtterance
    /\ UNCHANGED synthLate
    /\ UNCHANGED <<phase, strict, recognition, uncaught, lastDiscard, timers, connVars, formVars, recVars>>
    /\ UNCHANGED fmVars
    /\ UNCHANGED rtviVars

\* onend / onerror of an utterance that a cancel() removed from the queue
CancelledUtteranceEnd ==
    /\ Running
    /\ synthLate > 0
    /\ synthLate' = synthLate - 1
    /\ isAISpeaking' = FALSE
    /\ speechSynthesisRef' = NoUtterance
    /\ UNCHANGED <<synthQueue, synthStarted>>
    /\ UNCHANGED <<phase, strict, recognition, uncaught, lastDiscard, timers, connVars, formVars, recVars>>
    /\ UNCHANGED fmVars
    /\ UNCHANGED rtviVars

\* The timer callback run by setInterval instead of setTimeout.
SpeakTimerFireRepeating(t, n) ==
    /\ Running
    /\ BagIn(t, timers)
    /\ t.fn = "speakText"
    /\ timers' = timers
    /\ speakText(t.arg, n)
    /\ UNCHANGED <<phase, strict, recognition, uncaught, lastDiscard, connVars, formVars, recVars>>
    /\ UNCHANGED fmVars
    /\ UNCHANGED rtviVars

\* setTimeout(() => speakText(...), delay) fires
SpeakTimerFire(t, n) ==
    /\ Running
    /\ BagIn(t, timers)
    /\ t.fn = "speakText"
    /\ timers' = RemoveTimer(timers, t)
    /\ speakText(t.arg, n)
    /\ UNCHANGED <<phase, strict, recognition, uncaught, lastDiscard, connVars, formVars, recVars>>
    /\ UNCHANGED fmVars
    /\ UNCHANGED rtviVars

----------------------------------------------------------------------------
(* Inbound frames: ws.onmessage *)

\* A parsed JSON object, with Undef for a property that is absent.
Obj(t, a, um, ar, f, v, m) ==
    [type |-> t, action |-> a, user_message |-> um, ai_response |-> ar,
     field |-> f, value |-> v, message |-> m]

EmptyObj == Obj(Undef, Undef, Undef, Undef, Undef, Undef, Undef)

\* What arrives on the wire: text that is no JSON, the JSON literal null,
\* a JSON scalar, or a JSON object.
Frame(kind, data) == [kind |-> kind, data |-> data]

InTexts == {"a", "b"}

InValues == {"", "v1", Undef}

InFields == Fields \cup {"email", Undef}

ObjectFrames ==
    {Frame("object", Obj("welcome", Undef, Undef, Undef, Undef, Undef, Undef))}
    \cup {Frame("object", Obj("chat_response", Undef, um, ar, Undef, Undef, Undef)) :
            um \in {Undef, "hi"}, ar \in InTexts \cup {Undef}}
    \cup {Frame("object", Obj(t, "field_updated", Undef, Undef, f, v, Undef)) :
            t \in {"form_update", Undef}, f \in InFields, v \in InValues}
    \cup {Frame("object", Obj("form_update", a, Undef, Undef, Undef, Undef, Undef)) :
            a \in {"form_submitted", "bogus", Undef}}
    \cup {Frame("object", Obj(Undef, "form_submitted", Undef, Undef, Undef, Undef, Undef))}
    \cup {Frame("object", Obj(Undef, "assistant_response", Undef, Undef, Undef, Undef, m)) :
            m \in {"a", "", Undef}}
    \cup {Frame("object", Obj(t, a, Undef, Undef, "name", "v1", "a")) :
            t \in {"bogus", Undef}, a \in {"bogus", Undef}}
    \cup {Frame("object", Obj("welcome", "field_updated", Undef, Undef, "name", "v1", Undef))}

Frames ==
    {Frame("garbage", EmptyObj), Frame("null", EmptyObj), Frame("scalar", EmptyObj)}
    \cup ObjectFrames

ChatEntry(who, msg) == [type |-> who, message |-> msg]

\* What one run of the handler does: the branch of the if/else-if chain it
\* took, the entries appended to the chat, the text handed to speakText at
\* once, the timer armed, the form key written, whether setIsSubmitted(true)
\* ran, and whether an exception left the code that ran.
Effect(branch, chat, speak, timer, key, val, submit) ==
    [branch |-> branch, chat |-> chat, speak |-> speak, timer |-> timer, key |-> key,
     val |-> val, submit |-> submit, threw |-> FALSE]

NoEffect == Effect("none", <<>>, NoUtterance, <<>>, Null, Null, FALSE)

Thrown == [NoEffect EXCEPT !.threw = TRUE]

SubmittedEffect ==
    Effect("form_submitted", <<ChatEntry("assistant", SubmittedText)>>, SubmittedText,
           <<>>, Null, Null, TRUE)

\* The chain with a top-level form_submitted branch that only sets the flag.
DispatchQuietTopLevel(d) ==
    IF d.type = "welcome"
    THEN Effect("welcome", <<ChatEntry("assistant", WelcomeText)>>, NoUtterance,
                <<Timer("speakText", WelcomeSpeakDelayMs, WelcomeText)>>, Null, Null, FALSE)
    ELSE IF d.type = "chat_response"
    THEN Effect("chat_response",
                (IF Truthy(d.user_message)
                 THEN <<ChatEntry("user", Text(d.user_message))>> ELSE <<>>)
                \o (IF Truthy(d.ai_response)
                    THEN <<ChatEntry("assistant", Text(d.ai_response))>> ELSE <<>>),
                IF Truthy(d.ai_response) THEN Text(d.ai_response) ELSE NoUtterance,
                <<>>, Null, Null, FALSE)
    ELSE IF d.type = "form_update" \/ d.action = "field_updated"
    THEN IF d.action = "form_submitted"
         THEN SubmittedEffect
         ELSE Effect("field_updated", <<>>, NoUtterance, <<>>, d.field, d.value, FALSE)
    ELSE IF d.action = "form_submitted"
    THEN Effect("form_submitted", <<>>, NoUtterance, <<>>, Null, Null, TRUE)
    ELSE IF d.action = "assistant_response"
    THEN Effect("assistant_response", <<ChatEntry("assistant", Text(d.message))>>,
                IF Truthy(d.message) THEN Text(d.message) ELSE NoUtterance,
                <<>>, Null, Null, FALSE)
    ELSE NoEffect

\* The if/else-if chain on data.type and data.action.
Dispatch(d) ==
    IF d.type = "welcome"
    THEN Effect("welcome", <<ChatEntry("assistant", WelcomeText)>>, NoUtterance,
                <<Timer("speakText", WelcomeSpeakDelayMs, WelcomeText)>>, Null, Null, FALSE)
    ELSE IF d.type = "chat_response"
    THEN Effect("chat_response",
                (IF Truthy(d.user_message)
                 THEN <<ChatEntry("user", Text(d.user_message))>> ELSE <<>>)
                \o (IF Truthy(d.ai_response)
                    THEN <<ChatEntry("assistant", Text(d.ai_response))>> ELSE <<>>),
                IF Truthy(d.ai_response) THEN Text(d.ai_response) ELSE NoUtterance,
                <<>>, Null, Null, FALSE)
    ELSE IF d.type = "form_update" \/ d.action = "field_updated"
    THEN IF d.action = "form_submitted"
         THEN SubmittedEffect
         ELSE Effect("field_updated", <<>>, NoUtterance, <<>>, d.field, d.value, FALSE)
    ELSE IF d.action = "form_submitted"
    THEN SubmittedEffect
    ELSE IF d.action = "assistant_response"
    THEN Effect("assistant_response", <<ChatEntry("assistant", Text(d.message))>>,
                IF Truthy(d.message) THEN Text(d.message) ELSE NoUtterance,
                <<>>, Null, Null, FALSE)
    ELSE NoEffect

\* The body of the try block: JSON.parse throws a SyntaxError on text that is
\* no JSON, and reading data.type of null throws a TypeError; a scalar has no
\* properties, so every test of the chain is false.
TryBody(frame) ==
    IF frame.kind = "garbage" THEN Thrown
    ELSE IF frame.kind = "null" THEN Thrown
    ELSE IF frame.kind = "scalar" THEN Dispatch(EmptyObj)
    ELSE Dispatch(frame.data)

\* catch (error) { console.error('Error parsing message:', error) }
Catch(e) == IF e.threw THEN [NoEffect EXCEPT !.branch = "catch"] ELSE e

\* The handler without its try/catch.
HandleMessageNoCatch(frame) == TryBody(frame)

HandleMessage(frame) == Catch(TryBody(frame))

\* setFormData without the spread of the previous value.
SetFieldNoSpread(fd, key, val) ==
    [k \in DOMAIN fd \cup {key} |-> IF k = key THEN val ELSE ""]

\* setFormData(prev => ({...prev, [data.field]: data.value}))
SetField(fd, key, val) ==
    [k \in DOMAIN fd \cup {key} |-> IF k = key THEN val ELSE fd[k]]

\* The chat history has room for what the frame appends.
ChatRoom(frame, bound) == Len(chatHistory) + Len(HandleMessage(frame).chat) <= bound

\* ws.onmessage on socket s
OnMessage(s, frame, n) ==
    /\ Running
    /\ sock[s] \in {"open", "closing"}
    /\ LET e == HandleMessage(frame) IN
        /\ chatHistory' = chatHistory \o e.chat
        /\ formData' = IF e.key = Null THEN formData ELSE SetField(formData, e.key, e.val)
        /\ isSubmitted' = (isSubmitted \/ e.submit)
        /\ timers' = IF e.timer = <<>> THEN timers ELSE AddTimer(timers, e.timer[1])
        /\ uncaught' = (uncaught \/ e.threw)
        /\ lastDiscard' = IF e.branch \in {"none", "catch"} THEN frame.kind ELSE lastDiscard
        /\ MaybeSpeak(e.speak, n)
    /\ UNCHANGED <<phase, strict, recognition, connVars, recVars>>
    /\ UNCHANGED fmVars
    /\ UNCHANGED rtviVars

----------------------------------------------------------------------------
(* Push-to-talk: startRecording, stopRecording and the recognition callbacks *)

Transcripts == {"hi"}

\* The button's handlers run only while it is enabled:
\* disabled={connectionStatus !== 'connected' || isSubmitted}
TalkButtonEnabled == connectionStatus = "connected" /\ ~isSubmitted

\* Audio analysis: setupAudioAnalysis and the amplitude loop

SampleAverages == {0, 128, 255}

FreeContexts(cs) == {c \in Contexts : cs[c] = "none"}

NewContext(cs) == CHOOSE c \in FreeContexts(cs) : \A d \in FreeContexts(cs) : c <= d

\* audioContext.close() on the context a ref holds: a running context starts
\* to close; on a context that is closing or closed the promise is rejected.
CloseContext(cs, ref, how) ==
    IF ref # NoContext /\ cs[ref] = "running" THEN [cs EXCEPT ![ref] = how] ELSE cs

\* updateAudioLevel(): the closure tests the recordingStatus of the render in
\* which startRecording ran, and the analyser ref as it is now.
updateAudioLevel(analyser) ==
    IF closureStatus = "recording" /\ analyser
    THEN /\ audioLevel' \in SampleAverages
         /\ samplerArmed' = TRUE
    ELSE /\ audioLevel' = audioLevel
         /\ samplerArmed' = FALSE

\* setupAudioAnalysis(stream)
setupAudioAnalysis ==
    LET closed == CloseContext(ctx, audioContextRef, "closing") IN
    /\ FreeContexts(closed) # {}
    /\ ctx' = [closed EXCEPT ![NewContext(closed)] = "running"]
    /\ audioContextRef' = NewContext(closed)
    /\ analyserRef' = TRUE
    /\ updateAudioLevel(TRUE)

\* requestAnimationFrame runs updateAudioLevel again
AnimationFrame ==
    /\ Running
    /\ samplerArmed
    /\ updateAudioLevel(analyserRef)
    /\ UNCHANGED <<recordingStatus, recog, micPending, chatSent, audioContextRef, analyserRef,
                   ctx, streams, closureStatus>>
    /\ UNCHANGED <<phase, strict, recognition, uncaught, lastDiscard, timers, connVars,
                   formVars, speechVars>>
    /\ UNCHANGED fmVars
    /\ UNCHANGED rtviVars

\* audioContext.close() has resolved; the continuation stopRecording attached
\* clears both refs.
AudioContextClosed(c) ==
    /\ Running
    /\ ctx[c] \in {"closing", "closingThen"}
    /\ ctx' = [ctx EXCEPT ![c] = "none"]
    /\ IF ctx[c] = "closingThen"
       THEN audioContextRef' = NoContext /\ analyserRef' = FALSE
       ELSE UNCHANGED <<audioContextRef, analyserRef>>
    /\ UNCHANGED <<recordingStatus, recog, micPending, chatSent, audioLevel, streams,
                   closureStatus, samplerArmed>>
    /\ UNCHANGED <<phase, strict, recognition, uncaught, lastDiscard, timers, connVars,
                   formVars, speechVars>>
    /\ UNCHANGED fmVars
    /\ UNCHANGED rtviVars

\* The handler without the isSubmitted test of its first line.
startRecordingHandlerIgnoresSubmitted ==
    IF recordingStatus # "idle" \/ connectionStatus # "connected" \/ ~recognition
    THEN UNCHANGED recVars
    ELSE IF recog # "inactive"
    THEN /\ recordingStatus' = "idle"
         /\ audioLevel' = 0
         /\ UNCHANGED <<recog, micPending, chatSent, audioContextRef, analyserRef, ctx,
                        streams, closureStatus, samplerArmed>>
    ELSE /\ micPending < MaxMic
         /\ recordingStatus' = "recording"
         /\ recog' = "active"
         /\ micPending' = micPending + 1
         /\ closureStatus' = recordingStatus
         /\ UNCHANGED <<chatSent, audioLevel, audioContextRef, analyserRef, ctx, streams,
                        samplerArmed>>

\* startRecording up to its await.  recognition.start() throws an
\* InvalidStateError while a session is still running; the catch resets the
\* status.  Otherwise getUserMedia is requested and the handler suspends.
startRecordingHandler ==
    IF recordingStatus # "idle" \/ connectionStatus # "connected" \/ isSubmitted
       \/ ~recognition
    THEN UNCHANGED recVars
    ELSE IF recog # "inactive"
    THEN /\ recordingStatus' = "idle"
         /\ audioLevel' = 0
         /\ UNCHANGED <<recog, micPending, chatSent, audioContextRef, analyserRef, ctx,
                        streams, closureStatus, samplerArmed>>
    ELSE /\ micPending < MaxMic
         /\ recordingStatus' = "recording"
         /\ recog' = "active"
         /\ micPending' = micPending + 1
         /\ closureStatus' = recordingStatus
         /\ UNCHANGED <<chatSent, audioLevel, audioContextRef, analyserRef, ctx, streams,
                        samplerArmed>>

\* The talk button pressed (onMouseDown, onTouchStart)
startRecording ==
    /\ phase = "mounted"
    /\ TalkButtonEnabled
    /\ startRecordingHandler
    /\ UNCHANGED <<phase, strict, recognition, uncaught, lastDiscard, timers, connVars,
                   formVars, speechVars>>
    /\ UNCHANGED fmVars
    /\ UNCHANGED rtviVars

\* The continuation of startRecording once getUserMedia settles: the stream
\* goes to setupAudioAnalysis, a rejection lands in the catch.
getUserMediaSettled(granted) ==
    /\ Running
    /\ micPending > 0
    /\ micPending' = micPending - 1
    /\ IF granted
       THEN /\ streams' = Min(streams + 1, MaxStreams)
            /\ setupAudioAnalysis
            /\ UNCHANGED recordingStatus
       ELSE /\ recordingStatus' = "idle"
            /\ audioLevel' = 0
            /\ UNCHANGED <<audioContextRef, analyserRef, ctx, streams, samplerArmed>>
    /\ UNCHANGED <<recog, chatSent, closureStatus>>
    /\ UNCHANGED <<phase, strict, recognition, uncaught, lastDiscard, timers, connVars,
                   formVars, speechVars>>
    /\ UNCHANGED fmVars
    /\ UNCHANGED rtviVars

\* The handler without its first line.
stopRecordingHandlerUnguarded ==
    /\ recordingStatus' = "processing"
    /\ ctx' = CloseContext(ctx, audioContextRef, "closingThen")

\* stopRecording(): recognition.stop() lets the session run to its result
\* or its end; close() of the audio context resolves later.
stopRecordingHandler ==
    IF recordingStatus # "recording"
    THEN UNCHANGED <<recordingStatus, ctx>>
    ELSE /\ recordingStatus' = "processing"
         /\ ctx' = CloseContext(ctx, audioContextRef, "closingThen")

\* stopRecording pressing on regardless of the recording state.
stopRecordingUnguarded ==
    /\ phase = "mounted"
    /\ TalkButtonEnabled
    /\ recordingStatus' = "processing"
    /\ ctx' = CloseContext(ctx, audioContextRef, "closingThen")
    /\ UNCHANGED <<recog, micPending, chatSent, audioLevel, audioContextRef, analyserRef,
                   streams, closureStatus, samplerArmed>>
    /\ UNCHANGED <<phase, strict, recognition, uncaught, lastDiscard, timers, connVars,
                   formVars, speechVars>>
    /\ UNCHANGED fmVars
    /\ UNCHANGED rtviVars

\* The talk button released (onMouseUp, onTouchEnd)
stopRecording ==
    /\ phase = "mounted"
    /\ TalkButtonEnabled
    /\ stopRecordingHandler
    /\ UNCHANGED <<recog, micPending, chatSent, audioLevel, audioContextRef, analyserRef,
                   streams, closureStatus, samplerArmed>>
    /\ UNCHANGED <<phase, strict, recognition, uncaught, lastDiscard, timers, connVars,
                   formVars, speechVars>>
    /\ UNCHANGED fmVars
    /\ UNCHANGED rtviVars

\* startRecording() called in whatever state the page is in
StartRecordingCall ==
    /\ phase = "mounted"
    /\ startRecordingHandler
    /\ UNCHANGED <<phase, strict, recognition, uncaught, lastDiscard, timers, connVars,
                   formVars, speechVars>>
    /\ UNCHANGED fmVars
    /\ UNCHANGED rtviVars

\* stopRecording() called in whatever state the page is in
StopRecordingCall ==
    /\ phase = "mounted"
    /\ stopRecordingHandler
    /\ UNCHANGED <<recog, micPending, chatSent, audioLevel, audioContextRef, analyserRef,
                   streams, closureStatus, samplerArmed>>
    /\ UNCHANGED <<phase, strict, recognition, uncaught, lastDiscard, timers, connVars,
                   formVars, speechVars>>
    /\ UNCHANGED fmVars
    /\ UNCHANGED rtviVars

SocketIsOpen == wsRef # NoSocket /\ sock[wsRef] = "open"

ChatFrame(transcript, s) == [type |-> "chat", message |-> transcript, sock |-> s]

\* onresult without its setRecordingStatus('idle').
RecognitionResultNoReset(transcript) ==
    /\ Running
    /\ recog = "active"
    /\ recog' = "resulted"
    /\ IF SocketIsOpen
       THEN /\ Len(chatSent) < MaxSent
            /\ chatSent' = Append(chatSent, ChatFrame(transcript, wsRef))
       ELSE UNCHANGED chatSent
    /\ UNCHANGED recordingStatus
    /\ UNCHANGED <<micPending, audioVars>>
    /\ UNCHANGED <<phase, strict, recognition, uncaught, lastDiscard, timers, connVars,
                   formVars, speechVars>>
    /\ UNCHANGED fmVars
    /\ UNCHANGED rtviVars

\* speechRecognition.onresult
RecognitionResult(transcript) ==
    /\ Running
    /\ recog = "active"
    /\ recog' = "resulted"
    /\ IF SocketIsOpen
       THEN /\ Len(chatSent) < MaxSent
            /\ chatSent' = Append(chatSent, ChatFrame(transcript, wsRef))
       ELSE UNCHANGED chatSent
    /\ recordingStatus' = "idle"
    /\ UNCHANGED <<micPending, audioVars>>
    /\ UNCHANGED <<phase, strict, recognition, uncaught, lastDiscard, timers, connVars,
                   formVars, speechVars>>
    /\ UNCHANGED fmVars
    /\ UNCHANGED rtviVars

\* speechRecognition.onerror
RecognitionError ==
    /\ Running
    /\ recog = "active"
    /\ recog' = "errored"
    /\ recordingStatus' = "idle"
    /\ UNCHANGED <<micPending, chatSent, audioVars>>
    /\ UNCHANGED <<phase, strict, recognition, uncaught, lastDiscard, timers, connVars,
                   formVars, speechVars>>
    /\ UNCHANGED fmVars
    /\ UNCHANGED rtviVars

\* speechRecognition.onend
RecognitionEnd ==
    /\ Running
    /\ recog # "inactive"
    /\ recog' = "inactive"
    /\ recordingStatus' = "idle"
    /\ UNCHANGED <<micPending, chatSent, audioVars>>
    /\ UNCHANGED <<phase, strict, recognition, uncaught, lastDiscard, timers, connVars,
                   formVars, speechVars>>
    /\ UNCHANGED fmVars
    /\ UNCHANGED rtviVars

----------------------------------------------------------------------------
(* Manual submission: submitForm *)

AllFilled(fd) == Truthy(fd["name"]) /\ Truthy(fd["phone"]) /\ Truthy(fd["jobTitle"])

ThanksChatText(fd) == <<"thank_you", fd["name"], "phone", fd["phone"], "job", fd["jobTitle"]>>

ThanksSpeakText(fd) == <<"thank_you", fd["name"]>>

\* submitForm with a condition that forgets the job title.
submitFormTwoFields ==
    IF Truthy(formData["name"]) /\ Truthy(formData["phone"])
    THEN /\ isSubmitted' = TRUE
         /\ chatHistory' = Append(chatHistory, ChatEntry("assistant", ThanksChatText(formData)))
         /\ timers' = AddTimer(timers, Timer("speakText", SubmitSpeakDelayMs,
                                             ThanksSpeakText(formData)))
         /\ UNCHANGED formData
    ELSE UNCHANGED <<formVars, timers>>

\* The body of submitForm
submitForm ==
    IF AllFilled(formData)
    THEN /\ isSubmitted' = TRUE
         /\ chatHistory' = Append(chatHistory, ChatEntry("assistant", ThanksChatText(formData)))
         /\ timers' = AddTimer(timers, Timer("speakText", SubmitSpeakDelayMs,
                                             ThanksSpeakText(formData)))
         /\ UNCHANGED formData
    ELSE UNCHANGED <<formVars, timers>>

\* The Submit button is rendered only while the three values are truthy and
\* the form is not submitted.
SubmitButtonRendered == AllFilled(formData) /\ ~isSubmitted

SubmitClick ==
    /\ phase = "mounted"
    /\ SubmitButtonRendered
    /\ Len(chatHistory) < MaxChat
    /\ submitForm
    /\ UNCHANGED <<phase, strict, recognition, uncaught, lastDiscard, connVars, recVars,
                   speechVars>>
    /\ UNCHANGED fmVars
    /\ UNCHANGED rtviVars

----------------------------------------------------------------------------
(* Mount, unmount and the socket's life cycle *)

\* The mount effects: the recognition engine is created when the browser has
\* one, and connectWebSocket is called.
Mount(dev, engine, throws) ==
    /\ phase = "init"
    /\ phase' = IF dev THEN "strict_first" ELSE "mounted"
    /\ strict' = dev
    /\ recognition' = engine
    /\ connectWebSocket(throws, timers)
    /\ UNCHANGED <<wsRef, connectSent>>
    /\ UNCHANGED <<uncaught, lastDiscard, formVars, recVars, speechVars>>
    /\ UNCHANGED fmVars
    /\ UNCHANGED rtviVars

\* The cleanup of the connection effect
\* (wsRef.current.close() when wsRef.current is set).
CloseSocket(ref, socks) ==
    IF ref # NoSocket /\ socks[ref] \in {"connecting", "open"}
    THEN [socks EXCEPT ![ref] = "closing"]
    ELSE socks

\* reactStrictMode: in a development build every effect is run, cleaned up
\* and run again right after the first mount.
StrictRemount(throws) ==
    /\ phase = "strict_first"
    /\ phase' = "mounted"
    /\ connectSeq' = (connectSeq + 1) % SeqMod
    /\ LET closed == CloseSocket(wsRef, sock)
           free == {s \in Sockets : closed[s] = "none"}
           new == CHOOSE s \in free : \A t \in free : s <= t
       IN IF throws
          THEN /\ connectionStatus' = "disconnected"
               /\ timers' = AddTimer(timers, ReconnectTimer)
               /\ consecFailures' = Bump(consecFailures)
               /\ sock' = closed
          ELSE /\ free # {}
               /\ connectionStatus' = "connecting"
               /\ timers' = timers
               /\ consecFailures' = consecFailures
               /\ sock' = [closed EXCEPT ![new] = "connecting"]
    /\ UNCHANGED <<wsRef, connectSent>>
    /\ UNCHANGED <<strict, recognition, uncaught, lastDiscard, formVars, recVars, speechVars>>
    /\ UNCHANGED fmVars
    /\ UNCHANGED rtviVars

\* The cleanups run when the component unmounts.
Unmount ==
    /\ phase = "mounted"
    /\ phase' = "unmounted"
    /\ sock' = CloseSocket(wsRef, sock)
    /\ IF speechSynthesisRef # NoUtterance
       THEN \E n \in LateChoices(synthQueue) :
               /\ synthQueue' = <<>>
               /\ synthStarted' = FALSE
               /\ synthLate' = Min(synthLate + n, MaxLate)
               /\ speechSynthesisRef' = NoUtterance
               /\ UNCHANGED isAISpeaking
       ELSE UNCHANGED speechVars
    /\ ctx' = CloseContext(ctx, audioContextRef, "closing")
    /\ UNCHANGED <<connectionStatus, wsRef, connectSent, consecFailures, connectSeq>>
    /\ UNCHANGED <<recordingStatus, recog, micPending, chatSent, audioLevel, audioContextRef,
                   analyserRef, streams, closureStatus, samplerArmed>>
    /\ UNCHANGED <<strict, recognition, uncaught, lastDiscard, timers, formVars>>
    /\ UNCHANGED fmVars
    /\ UNCHANGED rtviVars

\* ws.onopen
SocketOpen(s) ==
    /\ Running
    /\ sock[s] = "connecting"
    /\ sock' = [sock EXCEPT ![s] = "open"]
    /\ connectionStatus' = "connected"
    /\ wsRef' = s
    /\ connectSent' = [connectSent EXCEPT ![s] = 1]
    /\ consecFailures' = 0
    /\ UNCHANGED connectSeq
    /\ UNCHANGED <<phase, strict, recognition, uncaught, lastDiscard, timers, formVars,
                   recVars, speechVars>>
    /\ UNCHANGED fmVars
    /\ UNCHANGED rtviVars

\* onerror with the setTimeout(connectWebSocket, 3000) of onclose repeated in it.
SocketErrorRetries(s) ==
    /\ Running
    /\ sock[s] \in {"connecting", "open", "closing"}
    /\ sock' = [sock EXCEPT ![s] = "failed"]
    /\ connectionStatus' = "disconnected"
    /\ timers' = AddTimer(timers, ReconnectTimer)
    /\ UNCHANGED <<wsRef, connectSent, consecFailures, connectSeq>>
    /\ UNCHANGED <<phase, strict, recognition, uncaught, lastDiscard, formVars,
                   recVars, speechVars>>
    /\ UNCHANGED fmVars
    /\ UNCHANGED rtviVars

\* ws.onerror: the browser reports the failure and will close the socket.
SocketError(s) ==
    /\ Running
    /\ sock[s] \in {"connecting", "open", "closing"}
    /\ sock' = [sock EXCEPT ![s] = "failed"]
    /\ connectionStatus' = "disconnected"
    /\ UNCHANGED <<wsRef, connectSent, consecFailures, connectSeq>>
    /\ UNCHANGED <<phase, strict, recognition, uncaught, lastDiscard, timers, formVars,
                   recVars, speechVars>>
    /\ UNCHANGED fmVars
    /\ UNCHANGED rtviVars

\* The closing handshake has been started by the server: readyState is
\* CLOSING, and no handler of the page runs until the close event.
SocketClosing(s) ==
    /\ Running
    /\ sock[s] = "open"
    /\ sock' = [sock EXCEPT ![s] = "closing"]
    /\ UNCHANGED <<connectionStatus, wsRef, connectSent, consecFailures, connectSeq>>
    /\ UNCHANGED <<phase, strict, recognition, uncaught, lastDiscard, timers, formVars,
                   recVars, speechVars>>
    /\ UNCHANGED fmVars
    /\ UNCHANGED rtviVars

\* ws.onclose: after an error, after the server closed, or after close().
SocketClose(s) ==
    /\ Running
    /\ sock[s] \in {"open", "closing", "failed"}
    /\ sock' = [sock EXCEPT ![s] = "none"]
    /\ connectionStatus' = "disconnected"
    /\ wsRef' = NoSocket
    /\ timers' = AddTimer(timers, ReconnectTimer)
    /\ connectSent' = [connectSent EXCEPT ![s] = 0]
    /\ consecFailures' = Bump(consecFailures)
    /\ UNCHANGED connectSeq
    /\ UNCHANGED <<phase, strict, recognition, uncaught, lastDiscard, formVars, recVars,
                   speechVars>>
    /\ UNCHANGED fmVars
    /\ UNCHANGED rtviVars

\* setTimeout(connectWebSocket, 3000) fires
ReconnectTimerFire(throws) ==
    /\ Running
    /\ BagIn(ReconnectTimer, timers)
    /\ connectWebSocket(throws, RemoveTimer(timers, ReconnectTimer))
    /\ UNCHANGED <<wsRef, connectSent>>
    /\ UNCHANGED <<phase, strict, recognition, uncaught, lastDiscard, formVars, recVars,
                   speechVars>>
    /\ UNCHANGED fmVars
    /\ UNCHANGED rtviVars

----------------------------------------------------------------------------
(* FormManager and its FormField rows *)

TypedValues == {"", "v2"}

VoiceValues == {"", "v1"}

FormOpen == currentForm.type # "none"

FieldNames == DOMAIN currentForm.fields

\* What the rows hold once the store's form has become `form`: a row is keyed
\* by field name, a new row starts from useState(field.value || ''), and the
\* effect on [field.value] overwrites a kept row's text when the value changed.
SyncRows(form, locals, editing) ==
    /\ localValue' = [k \in DOMAIN form.fields |->
                         IF k \in DOMAIN currentForm.fields
                               /\ form.fields[k].value = currentForm.fields[k].value
                         THEN locals[k]
                         ELSE form.fields[k].value]
    /\ isEditing' = [k \in DOMAIN form.fields |->
                         IF k \in DOMAIN currentForm.fields THEN editing[k] ELSE FALSE]

\* useVoiceAgent().openForm: replaces the current form
openForm(formType) ==
    /\ currentForm' = NewForm(formType)
    /\ SyncRows(NewForm(formType), localValue, isEditing)

\* QuickFormActions.handleQuickOpen
handleQuickOpen(formType) ==
    /\ openForm(formType)
    /\ typedText' = [k \in DOMAIN Template(formType) |->
                         IF k \in DOMAIN typedText THEN typedText[k] ELSE NoText]
    /\ UNCHANGED <<isSubmitting, phase, strict, recognition, uncaught, lastDiscard, timers,
                   connVars, formVars, recVars, speechVars>>
    /\ UNCHANGED rtviVars

\* useVoiceAgent().fillFormField: the store's mutation entry point
fillFormField(fieldName, value, editing) ==
    /\ currentForm' = MutateField(currentForm, fieldName, value)
    /\ SyncRows(MutateField(currentForm, fieldName, value), localValue, editing)

\* A field value extracted from the conversation reaches the store.
applyFieldUpdate(fieldName, value) ==
    /\ FormOpen
    /\ fieldName \in FieldNames
    /\ fillFormField(fieldName, value, isEditing)
    /\ UNCHANGED typedText
    /\ UNCHANGED <<isSubmitting, phase, strict, recognition, uncaught, lastDiscard, timers,
                   connVars, formVars, recVars, speechVars>>
    /\ UNCHANGED rtviVars

\* handleManualEdit writing the row's text into the field it is shown from,
\* without going through the store's entry point.
handleManualEditInPlace(fieldName, value, editing) ==
    /\ currentForm' = [currentForm EXCEPT !.fields[fieldName] = FormField(value, @.required)]
    /\ SyncRows(MutateField(currentForm, fieldName, value), localValue, editing)

\* FormManager.handleManualEdit
handleManualEdit(fieldName, value, editing) ==
    fillFormField(fieldName, value, editing)

\* The Edit button of a row: setIsEditing(true)
EditClick(fieldName) ==
    /\ FormOpen
    /\ fieldName \in FieldNames
    /\ ~isEditing[fieldName]
    /\ isEditing' = [isEditing EXCEPT ![fieldName] = TRUE]
    /\ typedText' = [typedText EXCEPT ![fieldName] = NoText]
    /\ UNCHANGED <<currentForm, localValue, isSubmitting, phase, strict, recognition, uncaught,
                   lastDiscard, timers, connVars, formVars, recVars, speechVars>>
    /\ UNCHANGED rtviVars

\* onChange of a row's input, which is enabled only while editing
InputChange(fieldName, text) ==
    /\ FormOpen
    /\ fieldName \in FieldNames
    /\ isEditing[fieldName]
    /\ localValue' = [localValue EXCEPT ![fieldName] = text]
    /\ typedText' = [typedText EXCEPT ![fieldName] = text]
    /\ UNCHANGED <<currentForm, isEditing, isSubmitting, phase, strict, recognition, uncaught,
                   lastDiscard, timers, connVars, formVars, recVars, speechVars>>
    /\ UNCHANGED rtviVars

\* FormField.handleSubmit: the Save button, or Enter
FormFieldSubmit(fieldName) ==
    /\ FormOpen
    /\ fieldName \in FieldNames
    /\ isEditing[fieldName]
    /\ IF localValue[fieldName] # currentForm.fields[fieldName].value
       THEN handleManualEdit(fieldName, localValue[fieldName],
                             [isEditing EXCEPT ![fieldName] = FALSE])
       ELSE /\ isEditing' = [isEditing EXCEPT ![fieldName] = FALSE]
            /\ UNCHANGED <<currentForm, localValue>>
    /\ typedText' = [typedText EXCEPT ![fieldName] = NoText]
    /\ UNCHANGED <<isSubmitting, phase, strict, recognition, uncaught, lastDiscard, timers,
                   connVars, formVars, recVars, speechVars>>
    /\ UNCHANGED rtviVars

\* FormField.handleKeyPress, Escape
FormFieldEscape(fieldName) ==
    /\ FormOpen
    /\ fieldName \in FieldNames
    /\ isEditing[fieldName]
    /\ localValue' = [localValue EXCEPT ![fieldName] = currentForm.fields[fieldName].value]
    /\ isEditing' = [isEditing EXCEPT ![fieldName] = FALSE]
    /\ typedText' = [typedText EXCEPT ![fieldName] = NoText]
    /\ UNCHANGED <<currentForm, isSubmitting, phase, strict, recognition, uncaught,
                   lastDiscard, timers, connVars, formVars, recVars, speechVars>>
    /\ UNCHANGED rtviVars

\* Math.round(currentForm.completionPercentage), the figure on screen
MathRound(q) == (2 * q.num + q.den) \div (2 * q.den)

DisplayedCompletion == MathRound(currentForm.completionPercentage)

SubmittingTimer == Timer("setIsSubmitting", SubmittingResetMs, <<>>)

\* useVoiceAgent().submitForm
storeSubmitForm == currentForm' = [currentForm EXCEPT !.submitted = TRUE]

\* FormManager.handleSubmit
FormManagerSubmit ==
    /\ CopiesIn(SubmittingTimer, timers) < MaxSubmitting
    /\ IF ~currentForm.isValid
       THEN UNCHANGED <<currentForm, isSubmitting, timers>>
       ELSE /\ isSubmitting' = TRUE
            /\ storeSubmitForm
            /\ timers' = AddTimer(timers, SubmittingTimer)
    /\ UNCHANGED <<localValue, isEditing, typedText, phase, strict, recognition, uncaught,
                   lastDiscard, connVars, formVars, recVars, speechVars>>
    /\ UNCHANGED rtviVars

\* setTimeout(() => setIsSubmitting(false), 2000)
SubmittingTimerFire ==
    /\ BagIn(SubmittingTimer, timers)
    /\ timers' = RemoveTimer(timers, SubmittingTimer)
    /\ isSubmitting' = FALSE
    /\ UNCHANGED <<currentForm, localValue, isEditing, typedText, phase, strict, recognition,
                   uncaught, lastDiscard, connVars, formVars, recVars, speechVars>>
    /\ UNCHANGED rtviVars

NextForm ==
    \/ \E formType \in FormTypes : handleQuickOpen(formType)
    \/ \E k \in FieldNames, v \in VoiceValues : applyFieldUpdate(k, v)
    \/ \E k \in FieldNames : EditClick(k)
    \/ \E k \in FieldNames, v \in TypedValues : InputChange(k, v)
    \/ \E k \in FieldNames : FormFieldSubmit(k)
    \/ \E k \in FieldNames : FormFieldEscape(k)
    \/ FormManagerSubmit
    \/ SubmittingTimerFire

SpecForm == Init /\ [][NextForm]_vars

----------------------------------------------------------------------------
(* RTVIVoiceInterface (components/RTVIVoiceInterface.tsx) over the RTVI     *)
(* client (lib/rtvi-client): the client's promises settle and its callbacks *)
(* are invoked at any later time.                                           *)

MaxPending == 1

MaxBuffer == 2

FloatSteps == 2

AmplitudeGain == 10

homeVars == <<phase, strict, recognition, uncaught, lastDiscard, timers, connVars, formVars,
              recVars, speechVars>>

RECURSIVE SumSeq(_)
SumSeq(q) == IF q = <<>> THEN 0 ELSE Head(q) + SumSeq(Tail(q))

Abs(x) == IF x < 0 THEN -x ELSE x

SeqsUpTo(S, n) == UNION {[1..m -> S] : m \in 0..n}

\* Float32 samples in [-1, 1], in units of 1/FloatSteps
AudioBuffers == SeqsUpTo((-FloatSteps)..FloatSteps, MaxBuffer)

\* sum / audioArray.length * 10 as a fraction; 0/0 is NaN
AvgAmplitudeTimesGain(audio) ==
    [num |-> AmplitudeGain * SumSeq([i \in 1..Len(audio) |-> Abs(audio[i])]),
     den |-> Len(audio) * FloatSteps]

\* The effect that asks for the microphone on mount has settled.
PermissionSettled(granted) ==
    /\ micPermission = Null
    /\ micPermission' = IF granted THEN "granted" ELSE "denied"
    /\ UNCHANGED <<isConnected, isListening, isProcessing, amplitude, error, link, pendingStart,
                   pendingStop>>
    /\ UNCHANGED <<homeVars, fmVars>>

\* The Connect button, shown while isConnected is false
handleConnect ==
    /\ ~isConnected
    /\ link = "down"
    /\ link' = "connecting"
    /\ UNCHANGED <<isConnected, isListening, isProcessing, amplitude, micPermission, error,
                   pendingStart, pendingStop>>
    /\ UNCHANGED <<homeVars, fmVars>>

\* rtviClient.connect() resolved false or rejected
ConnectFailed ==
    /\ link = "connecting"
    /\ link' = "down"
    /\ error' = "connect_failed"
    /\ UNCHANGED <<isConnected, isListening, isProcessing, amplitude, micPermission,
                   pendingStart, pendingStop>>
    /\ UNCHANGED <<homeVars, fmVars>>

\* callbacks.onConnected
onConnected ==
    /\ link = "connecting"
    /\ link' = "up"
    /\ isConnected' = TRUE
    /\ error' = Null
    /\ UNCHANGED <<isListening, isProcessing, amplitude, micPermission, pendingStart,
                   pendingStop>>
    /\ UNCHANGED <<homeVars, fmVars>>

\* The Disconnect button, shown while isConnected is true
handleDisconnect ==
    /\ isConnected
    /\ link = "up"
    /\ link' = "closing"
    /\ UNCHANGED <<isConnected, isListening, isProcessing, amplitude, micPermission, error,
                   pendingStart, pendingStop>>
    /\ UNCHANGED <<homeVars, fmVars>>

\* callbacks.onDisconnected: the transport went away, asked for or not
onDisconnected ==
    /\ link \in {"up", "closing"}
    /\ link' = "down"
    /\ isConnected' = FALSE
    /\ isListening' = FALSE
    /\ isProcessing' = FALSE
    /\ UNCHANGED <<amplitude, micPermission, error, pendingStart, pendingStop>>
    /\ UNCHANGED <<homeVars, fmVars>>

\* The voice button is rendered while isConnected and is disabled while the
\* permission is known to be denied.
VoiceButtonEnabled == isConnected /\ micPermission # "denied"

\* handleVoiceToggle up to its await
handleVoiceToggle ==
    /\ VoiceButtonEnabled
    /\ IF isListening
       THEN /\ pendingStop < MaxPending
            /\ pendingStop' = pendingStop + 1
            /\ UNCHANGED <<pendingStart, error>>
       ELSE IF micPermission = "denied"
       THEN /\ error' = "mic_required"
            /\ UNCHANGED <<pendingStart, pendingStop>>
       ELSE /\ pendingStart < MaxPending
            /\ pendingStart' = pendingStart + 1
            /\ UNCHANGED <<pendingStop, error>>
    /\ UNCHANGED <<isConnected, isListening, isProcessing, amplitude, micPermission, link>>
    /\ UNCHANGED <<homeVars, fmVars>>

\* The continuation of handleVoiceToggle after `await rtviClient.startListening()`
startListeningSettled(ok) ==
    /\ pendingStart > 0
    /\ pendingStart' = pendingStart - 1
    /\ IF ok
       THEN /\ isListening' = TRUE
            /\ isProcessing' = TRUE
            /\ UNCHANGED error
       ELSE /\ error' = "start_failed"
            /\ UNCHANGED <<isListening, isProcessing>>
    /\ UNCHANGED <<isConnected, amplitude, micPermission, link, pendingStop>>
    /\ UNCHANGED <<homeVars, fmVars>>

\* The continuation of handleVoiceToggle after `await rtviClient.stopListening()`
stopListeningSettled(ok) ==
    /\ pendingStop > 0
    /\ pendingStop' = pendingStop - 1
    /\ IF ok
       THEN /\ isListening' = FALSE
            /\ UNCHANGED error
       ELSE /\ error' = "stop_failed"
            /\ UNCHANGED isListening
    /\ UNCHANGED <<isConnected, isProcessing, amplitude, micPermission, link, pendingStart>>
    /\ UNCHANGED <<homeVars, fmVars>>

\* callbacks.onAudioInput
onAudioInput(audio) ==
    /\ amplitude' = AvgAmplitudeTimesGain(audio)
    /\ UNCHANGED <<isConnected, isListening, isProcessing, micPermission, error, link,
                   pendingStart, pendingStop>>
    /\ UNCHANGED <<homeVars, fmVars>>

\* callbacks.onAudioOutput, and onMessage of an rtvi-audio-out
onAudioOutput ==
    /\ isProcessing' = FALSE
    /\ UNCHANGED <<isConnected, isListening, amplitude, micPermission, error, link,
                   pendingStart, pendingStop>>
    /\ UNCHANGED <<homeVars, fmVars>>

\* callbacks.onError
onError ==
    /\ error' = "client_error"
    /\ isProcessing' = FALSE
    /\ UNCHANGED <<isConnected, isListening, amplitude, micPermission, link, pendingStart,
                   pendingStop>>
    /\ UNCHANGED <<homeVars, fmVars>>

NextRTVI ==
    \/ \E granted \in BOOLEAN : PermissionSettled(granted)
    \/ handleConnect
    \/ ConnectFailed
    \/ onConnected
    \/ handleDisconnect
    \/ onDisconnected
    \/ handleVoiceToggle
    \/ \E ok \in BOOLEAN : startListeningSettled(ok)
    \/ \E ok \in BOOLEAN : stopListeningSettled(ok)
    \/ \E audio \in AudioBuffers : onAudioInput(audio)
    \/ onAudioOutput
    \/ onError

SpecRTVI == Init /\ [][NextRTVI]_vars

----------------------------------------------------------------------------

Next ==
    \/ \E dev \in BOOLEAN, engine \in BOOLEAN, throws \in BOOLEAN : Mount(dev, engine, throws)
    \/ \E throws \in BOOLEAN : StrictRemount(throws)
    \/ Unmount
    \/ \E s \in Sockets : SocketOpen(s)
    \/ \E s \in Sockets : SocketError(s)
    \/ \E s \in Sockets : SocketClosing(s)
    \/ \E s \in Sockets : SocketClose(s)
    \/ \E throws \in BOOLEAN : ReconnectTimerFire(throws)
    \/ \E s \in Sockets, f \in Frames, n \in 0..MaxQueue :
          ChatRoom(f, MaxChat) /\ OnMessage(s, f, n)
    \/ \E t \in BagToSet(timers), n \in 0..MaxQueue : SpeakTimerFire(t, n)
    \/ UtteranceStart
    \/ UtteranceEnd
    \/ CancelledUtteranceEnd
    \/ startRecording
    \/ \E granted \in BOOLEAN : getUserMediaSettled(granted)
    \/ stopRecording
    \/ \E tr \in Transcripts : RecognitionResult(tr)
    \/ RecognitionError
    \/ RecognitionEnd
    \/ SubmitClick
    \/ AnimationFrame
    \/ \E c \in Contexts : AudioContextClosed(c)
    \/ NextForm
    \/ NextRTVI

Spec == Init /\ [][Next]_vars

----------------------------------------------------------------------------
(* The connection alone: no frame arrives and nobody talks. *)

NextConn ==
    \/ \E dev \in BOOLEAN, engine \in BOOLEAN, throws \in BOOLEAN : Mount(dev, engine, throws)
    \/ \E throws \in BOOLEAN : StrictRemount(throws)
    \/ Unmount
    \/ \E s \in Sockets : SocketOpen(s)
    \/ \E s \in Sockets : SocketError(s)
    \/ \E s \in Sockets : SocketClose(s)
    \/ \E throws \in BOOLEAN : ReconnectTimerFire(throws)

SpecConn == Init /\ [][NextConn]_vars

\* Timers fire: a pending setTimeout callback is eventually run.  The second
\* pass of a development mount follows the first without waiting for anything.
FairSpecConn ==
    /\ SpecConn
    /\ WF_vars(\E throws \in BOOLEAN : ReconnectTimerFire(throws))
    /\ WF_vars(\E throws \in BOOLEAN : StrictRemount(throws))

----------------------------------------------------------------------------
(* The voice loop on a connection that stays up: utterances arrive, are     *)
(* spoken, and the user talks.  The level meter is left out: its            *)
(* getUserMedia request is refused.                                         *)

MaxChatVoice == 3

VoiceFrames ==
    {Frame("object", Obj("welcome", Undef, Undef, Undef, Undef, Undef, Undef)),
     Frame("object", Obj("chat_response", Undef, Undef, "a", Undef, Undef, Undef)),
     Frame("object", Obj(Undef, "assistant_response", Undef, Undef, Undef, Undef, "a"))}

NextVoice ==
    \/ \E engine \in BOOLEAN : Mount(FALSE, engine, FALSE)
    \/ \E s \in Sockets : SocketOpen(s)
    \/ \E s \in Sockets, f \in VoiceFrames, n \in 0..MaxQueue :
          ChatRoom(f, MaxChatVoice) /\ OnMessage(s, f, n)
    \/ \E t \in BagToSet(timers), n \in 0..MaxQueue : SpeakTimerFire(t, n)
    \/ UtteranceStart
    \/ UtteranceEnd
    \/ CancelledUtteranceEnd
    \/ startRecording
    \/ getUserMediaSettled(FALSE)
    \/ stopRecording
    \/ \E tr \in Transcripts : RecognitionResult(tr)
    \/ RecognitionError
    \/ RecognitionEnd

SpecVoice == Init /\ [][NextVoice]_vars

----------------------------------------------------------------------------
(* Claims about the connection *)

\* A closure of socket s that the page did not ask for happens in this step.
RemoteClosure(s) == sock[s] \in {"open", "failed"} /\ sock'[s] = "none"

\* connectWebSocket ran in this step and `new WebSocket` threw.
ConnectThrew == connectSeq' # connectSeq /\ sock' = sock

\* The session is waiting to reconnect.
Reconnecting == connectionStatus = "disconnected" /\ PendingReconnects > 0

\* C1: every closure that was not initiated locally, and every connect call
\* whose constructor throws, leaves the status disconnected with one more
\* connectWebSocket timer of the fixed 3000 ms delay pending; and whenever such
\* a timer is pending, connectWebSocket is called again, however many
\* attempts have failed before.
C1_RetryForever ==
    /\ [][\A s \in Sockets : RemoteClosure(s) =>
             /\ connectionStatus' = "disconnected"
             /\ PendingReconnects' = PendingReconnects + 1]_vars
    /\ [][ConnectThrew => /\ connectionStatus' = "disconnected"
                          /\ PendingReconnects' >= 1]_vars
    /\ \A k \in 0..(SeqMod - 1) :
          (PendingReconnects > 0 /\ connectSeq = k) ~> (connectSeq # k)

\* C1 witness: after at least two consecutive failures, the last of them a
\* throwing constructor, the session is again waiting to reconnect.
C1_Witness ==
    /\ consecFailures >= 2
    /\ Reconnecting
    /\ \A s \in Sockets : sock[s] = "none"
    /\ phase = "mounted"

\* C2: once the component has unmounted (its cleanup closes the socket),
\* connectWebSocket is never called again.
C2_NoConnectAfterClose == [][phase = "unmounted" => connectSeq' = connectSeq]_vars

\* C3: at most one transport is open or opening at any time, and no socket
\* is sent more than one connect frame.
C3_AtMostOneTransport ==
    /\ Cardinality({s \in Sockets : Live(s)}) <= 1
    /\ \A s \in Sockets : connectSent[s] <= 1

----------------------------------------------------------------------------
(* Claims about the voice loop *)

Playing == synthQueue # <<>> /\ synthStarted

\* C4: when the user starts capture while an utterance is playing, the step
\* that makes the recording state `recording` also stops that utterance: it
\* is no longer in the synthesis queue afterwards.
C4_TalkCancelsPlayback ==
    [][(recordingStatus # "recording" /\ recordingStatus' = "recording" /\ Playing)
          => synthQueue' = <<>>]_vars

\* C5: at most one utterance is queued or playing at any time.
C5_NoOverlap == Len(synthQueue) <= 1

\* C6: while the user is listening, the handler of an inbound frame hands no
\* text to speakText.
C6_NoSpeakWhileListening ==
    [][\A s \in Sockets, f \in VoiceFrames, n \in 0..MaxQueue :
          (recordingStatus = "recording" /\ OnMessage(s, f, n))
              => HandleMessage(f).speak = NoUtterance]_vars

----------------------------------------------------------------------------
(* The protocol on a connection that stays up: every kind of frame the      *)
(* handler discards, and one frame for each branch it takes.  The level     *)
(* meter is left out as in the voice loop.                                  *)

RecognizedTypes == {"welcome", "chat_response", "form_update"}

RecognizedActions == {"field_updated", "form_submitted", "assistant_response"}

\* Frames that are no JSON, that parse to null or to a scalar, or whose type
\* and action are both absent or unknown.
DiscardFrames ==
    {f \in Frames : \/ f.kind # "object"
                    \/ /\ f.data.type \notin RecognizedTypes
                       /\ f.data.action \notin RecognizedActions}

BranchFrames ==
    {Frame("object", Obj("welcome", Undef, Undef, Undef, Undef, Undef, Undef)),
     Frame("object", Obj("chat_response", Undef, "hi", Undef, Undef, Undef, Undef)),
     Frame("object", Obj("form_update", "field_updated", Undef, Undef, "name", "v1", Undef)),
     Frame("object", Obj("form_update", "form_submitted", Undef, Undef, Undef, Undef, Undef)),
     Frame("object", Obj(Undef, "assistant_response", Undef, Undef, Undef, Undef, "a"))}

MaxChatProto == 1

NextProto ==
    \/ \E engine \in BOOLEAN : Mount(FALSE, engine, FALSE)
    \/ \E s \in Sockets : SocketOpen(s)
    \/ \E s \in Sockets, f \in DiscardFrames \cup BranchFrames, n \in 0..MaxQueue :
          ChatRoom(f, MaxChatProto) /\ OnMessage(s, f, n)
    \/ \E t \in BagToSet(timers), n \in 0..MaxQueue : SpeakTimerFire(t, n)
    \/ UtteranceStart
    \/ UtteranceEnd
    \/ startRecording
    \/ getUserMediaSettled(FALSE)
    \/ stopRecording
    \/ RecognitionEnd

SpecProto == Init /\ [][NextProto]_vars

\* C7: the handler of a frame that is no JSON, that parses to null or to a
\* scalar, or that carries no recognized type or action, lets no exception
\* out and leaves the chat history, the form data, the submitted flag, the
\* connection state, the recording state and the playback state as they were.
C7_MalformedDropped ==
    [][\A s \in Sockets, f \in DiscardFrames, n \in 0..MaxQueue :
          OnMessage(s, f, n) =>
              /\ ~uncaught'
              /\ UNCHANGED <<chatHistory, formData, isSubmitted, connectionStatus,
                             recordingStatus, timers>>
              /\ UNCHANGED <<isAISpeaking, speechSynthesisRef, synthQueue, synthStarted>>]_vars

\* C7 witness: a frame that parses to null has been discarded in a session
\* with chat entries, a filled field, a recording and an utterance playing.
C7_Witness ==
    /\ lastDiscard = "null"
    /\ chatHistory # <<>>
    /\ formData["name"] = "v1"
    /\ recordingStatus = "recording"
    /\ Playing
    /\ ~uncaught

----------------------------------------------------------------------------
(* submitForm called on any form: the session is connected, the server has  *)
(* sent whatever field values it liked, and submitForm is called whether or *)
(* not the Submit button is on screen.                                      *)

\* A value that is a telephone number; "v1" and "v2" are free text.
TenDigits == "0123456789"

SubmitValues == {"", "v1", "v2", TenDigits, Undef}

InitSubmit ==
    /\ phase = "mounted"
    /\ strict = FALSE
    /\ connectionStatus = "connected"
    /\ wsRef = 1
    /\ sock = [s \in Sockets |-> IF s = 1 THEN "open" ELSE "none"]
    /\ connectSent = [s \in Sockets |-> IF s = 1 THEN 1 ELSE 0]
    /\ timers = EmptyBag
    /\ consecFailures = 0
    /\ connectSeq = 1
    /\ formData \in [Fields -> SubmitValues]
    /\ chatHistory \in {<<>>, <<ChatEntry("assistant", WelcomeText)>>}
    /\ isSubmitted = FALSE
    /\ uncaught = FALSE
    /\ lastDiscard = "none"
    /\ recordingStatus = "idle"
    /\ recognition = TRUE
    /\ recog = "inactive"
    /\ micPending = 0
    /\ chatSent = <<>>
    /\ isAISpeaking = FALSE
    /\ speechSynthesisRef = NoUtterance
    /\ synthQueue = <<>>
    /\ synthStarted = FALSE
    /\ synthLate = 0
    /\ currentForm \in {NoForm} \cup UNION {{FormOf(t, v) : v \in [DOMAIN Template(t) -> VoiceValues]} :
                                              t \in FormTypes}
    /\ localValue = [k \in DOMAIN currentForm.fields |-> currentForm.fields[k].value]
    /\ isEditing = [k \in DOMAIN currentForm.fields |-> FALSE]
    /\ isSubmitting = FALSE
    /\ typedText = [k \in DOMAIN currentForm.fields |-> NoText]
    /\ audioLevel = 0
    /\ audioContextRef = NoContext
    /\ analyserRef = FALSE
    /\ ctx = [c \in Contexts |-> "none"]
    /\ streams = 0
    /\ closureStatus = "idle"
    /\ samplerArmed = FALSE
    /\ isConnected = FALSE
    /\ isListening = FALSE
    /\ isProcessing = FALSE
    /\ amplitude = [num |-> 0, den |-> 1]
    /\ micPermission = Null
    /\ error = Null
    /\ link = "down"
    /\ pendingStart = 0
    /\ pendingStop = 0

SubmitFormCall ==
    /\ phase = "mounted"
    /\ Len(chatHistory) < MaxChat
    /\ submitForm
    /\ UNCHANGED <<phase, strict, recognition, uncaught, lastDiscard, connVars, recVars,
                   speechVars>>
    /\ UNCHANGED fmVars
    /\ UNCHANGED rtviVars

NextSubmit ==
    \/ SubmitFormCall
    \/ \E t \in BagToSet(timers), n \in 0..MaxQueue : SpeakTimerFire(t, n)
    \/ UtteranceStart
    \/ UtteranceEnd
    \/ FormManagerSubmit
    \/ SubmittingTimerFire

SpecSubmit == InitSubmit /\ [][NextSubmit]_vars

\* A form is open and each of its required fields has a non-empty value.
FormComplete ==
    /\ FormOpen
    /\ \A k \in FieldNames : currentForm.fields[k].required => currentForm.fields[k].value # ""

\* Every required field has a non-empty value.
IsValid == \A k \in Fields : formData[k] # "" /\ formData[k] # Undef

----------------------------------------------------------------------------
(* Completion of the store's form *)

RequiredFields == {k \in FieldNames : currentForm.fields[k].required}

FilledRequired == {k \in RequiredFields : currentForm.fields[k].value # ""}

----------------------------------------------------------------------------
(* Field updates in every voice state: the connection stays up, the server  *)
(* sends field updates and an utterance, and the user talks.  The level     *)
(* meter is left out as in the voice loop.                                  *)

MaxChatFields == 1

UpdateFields == {"name", "email"}

FieldFrames ==
    {Frame("object", Obj(t, "field_updated", Undef, Undef, f, v, Undef)) :
        t \in {"form_update", Undef}, f \in UpdateFields, v \in InValues}

SpeakerFrame ==
    Frame("object", Obj(Undef, "assistant_response", Undef, Undef, Undef, Undef, "a"))

NextFields ==
    \/ \E engine \in BOOLEAN : Mount(FALSE, engine, FALSE)
    \/ \E s \in Sockets : SocketOpen(s)
    \/ \E s \in Sockets, f \in FieldFrames \cup {SpeakerFrame}, n \in 0..MaxQueue :
          ChatRoom(f, MaxChatFields) /\ OnMessage(s, f, n)
    \/ UtteranceStart
    \/ UtteranceEnd
    \/ startRecording
    \/ getUserMediaSettled(FALSE)
    \/ stopRecording
    \/ RecognitionEnd

SpecFields == Init /\ [][NextFields]_vars

\* The page shows a field as provided when its value is truthy.
Filled(fd, k) == Truthy(fd[k])

VoiceUnchanged ==
    UNCHANGED <<recordingStatus, recog, isAISpeaking, speechSynthesisRef, synthQueue,
                synthStarted>>

OthersUnchanged(k) ==
    /\ DOMAIN formData' = DOMAIN formData \cup {k}
    /\ \A j \in DOMAIN formData \ {k} : formData'[j] = formData[j]

\* C10 as stated: in every voice state the handler of a field_updated frame
\* leaves the field holding the value and counting as filled, with every
\* other field, the recording state and the playback state unchanged.
C10_FieldUpdateFills ==
    [][\A s \in Sockets, f \in FieldFrames, n \in 0..MaxQueue :
          OnMessage(s, f, n) =>
              /\ formData'[f.data.field] = f.data.value
              /\ Filled(formData', f.data.field)
              /\ OthersUnchanged(f.data.field)
              /\ VoiceUnchanged]_vars

\* C10 amended: in every voice state the handler of a field_updated frame
\* leaves the field holding the value, counting as filled exactly when the
\* value is a non-empty string, with every other field, the recording state
\* and the playback state unchanged.
C10_FieldUpdateApplied ==
    [][\A s \in Sockets, f \in FieldFrames, n \in 0..MaxQueue :
          OnMessage(s, f, n) =>
              /\ formData'[f.data.field] = f.data.value
              /\ Filled(formData', f.data.field)
                    <=> (f.data.value # "" /\ f.data.value # Undef)
              /\ OthersUnchanged(f.data.field)
              /\ VoiceUnchanged]_vars

\* C10 witness: a field update has been applied while the user was recording
\* and an utterance was playing.
C10_Witness ==
    /\ "email" \in DOMAIN formData
    /\ formData["email"] = "v1"
    /\ formData["name"] = Undef
    /\ formData["phone"] = ""
    /\ recordingStatus = "recording"
    /\ Playing
    /\ isAISpeaking

----------------------------------------------------------------------------
(* Microphone permission denied: every getUserMedia request is rejected and  *)
(* the recognition engine, which needs the same permission, only errors.     *)

MaxChatDenied == 1

DeniedFrames ==
    {Frame("object", Obj("chat_response", Undef, "hi", Undef, Undef, Undef, Undef)),
     Frame("object", Obj("form_update", "field_updated", Undef, Undef, "name", "v1", Undef)),
     Frame("object", Obj("form_update", "field_updated", Undef, Undef, "phone", "v1", Undef)),
     Frame("object", Obj("form_update", "field_updated", Undef, Undef, "jobTitle", "v1", Undef))}

NextDenied ==
    \/ \E engine \in BOOLEAN : Mount(FALSE, engine, FALSE)
    \/ \E s \in Sockets : SocketOpen(s)
    \/ \E s \in Sockets, f \in DeniedFrames :
          ChatRoom(f, MaxChatDenied) /\ OnMessage(s, f, 0)
    \/ startRecording
    \/ getUserMediaSettled(FALSE)
    \/ stopRecording
    \/ RecognitionError
    \/ RecognitionEnd

SpecDenied == Init /\ [][NextDenied]_vars

\* The handler of frame f has appended its chat entries and written its field.
Applied(f) ==
    /\ chatHistory' = chatHistory \o HandleMessage(f).chat
    /\ f.data.field # Undef => formData'[f.data.field] = f.data.value

\* C11: with microphone permission denied the recording state is idle after
\* every step and no recognition session is running, so no attempt to start
\* capture passes through Recording; inbound chat and form messages are
\* still applied.
C11_DeniedStaysIdle ==
    [][/\ recordingStatus' = "idle"
       /\ recog' = "inactive"
       /\ \A s \in Sockets, f \in DeniedFrames : OnMessage(s, f, 0) => Applied(f)]_vars

----------------------------------------------------------------------------
(* Talking over a connection that comes and goes *)

NextSend ==
    \/ \E engine \in BOOLEAN : Mount(FALSE, engine, FALSE)
    \/ \E s \in Sockets : SocketOpen(s)
    \/ \E s \in Sockets : SocketError(s)
    \/ \E s \in Sockets : SocketClose(s)
    \/ ReconnectTimerFire(FALSE)
    \/ startRecording
    \/ \E granted \in BOOLEAN : getUserMediaSettled(granted)
    \/ stopRecording
    \/ \E c \in Contexts : AudioContextClosed(c)
    \/ \E tr \in Transcripts : RecognitionResult(tr)
    \/ RecognitionError
    \/ RecognitionEnd

SpecSend == Init /\ [][NextSend]_vars

\* What the code around a send can tell the user or its caller in this step:
\* an exception leaving the handler, or an entry added to the chat.
OutcomeVisible == uncaught' # uncaught \/ chatHistory' # chatHistory

\* C12: a transcript recognized while the socket is not open is rejected with
\* an outcome its caller can see, and no frame is written to any transport.
C12_SendFailsFast ==
    [][\A tr \in Transcripts :
          (RecognitionResult(tr) /\ ~SocketIsOpen) =>
              (chatSent' = chatSent /\ OutcomeVisible)]_vars

----------------------------------------------------------------------------
(* The welcome *)

WelcomeFrame == Frame("object", Obj("welcome", Undef, Undef, Undef, Undef, Undef, Undef))

WelcomeTimer == Timer("speakText", WelcomeSpeakDelayMs, WelcomeText)

WelcomeEntry == ChatEntry("assistant", WelcomeText)

WelcomeEntries(chat) == Cardinality({i \in 1..Len(chat) : chat[i] = WelcomeEntry})

WelcomeReceived == \E s \in Sockets : OnMessage(s, WelcomeFrame, 0)

WelcomeSpeakCall == \E n \in 0..MaxQueue : SpeakTimerFire(WelcomeTimer, n)

\* C13: the handler of a welcome frame appends one assistant entry with the
\* welcome text and arms one speakText(welcome) timer; the timer's callback
\* hands the welcome text to the synthesizer once and is gone; nothing else
\* adds a welcome entry or adds or removes such a timer.
C13_WelcomeOnce ==
    /\ [][WelcomeReceived =>
             /\ chatHistory' = Append(chatHistory, WelcomeEntry)
             /\ CopiesIn(WelcomeTimer, timers') = CopiesIn(WelcomeTimer, timers) + 1
             /\ UNCHANGED speechVars]_vars
    /\ [][WelcomeSpeakCall =>
             /\ CopiesIn(WelcomeTimer, timers') = CopiesIn(WelcomeTimer, timers) - 1
             /\ speechSynthesisRef' = WelcomeText
             /\ synthQueue'[Len(synthQueue')] = WelcomeText
             /\ UNCHANGED chatHistory]_vars
    /\ [][(CopiesIn(WelcomeTimer, timers') # CopiesIn(WelcomeTimer, timers)
              \/ WelcomeEntries(chatHistory') # WelcomeEntries(chatHistory))
             => (WelcomeReceived \/ WelcomeSpeakCall)]_vars

\* C13 witness: two welcomes have arrived; the first has been spoken to its
\* end, the second is playing, and each has its one entry.
C13_Witness ==
    /\ WelcomeEntries(chatHistory) = 2
    /\ Len(chatHistory) = 3
    /\ CopiesIn(WelcomeTimer, timers) = 0
    /\ synthQueue = <<WelcomeText>>
    /\ Playing

----------------------------------------------------------------------------
(* Cancelling: speakText over an utterance in progress, and the cleanup of  *)
(* the page when it goes away.                                              *)

MaxChatCancel == 2

NextCancel ==
    \/ \E engine \in BOOLEAN : Mount(FALSE, engine, FALSE)
    \/ \E s \in Sockets : SocketOpen(s)
    \/ \E s \in Sockets, f \in VoiceFrames, n \in 0..MaxQueue :
          ChatRoom(f, MaxChatCancel) /\ OnMessage(s, f, n)
    \/ \E t \in BagToSet(timers), n \in 0..MaxQueue : SpeakTimerFire(t, n)
    \/ UtteranceStart
    \/ UtteranceEnd
    \/ CancelledUtteranceEnd
    \/ Unmount

SpecCancel == Init /\ [][NextCancel]_vars

\* Texts handed to speakText in this step (none or one).
SpokenNow ==
    {HandleMessage(f).speak : f \in {g \in VoiceFrames :
        /\ HandleMessage(g).speak # NoUtterance
        /\ \E s \in Sockets, n \in 0..MaxQueue : OnMessage(s, g, n)}}
    \cup {t.arg : t \in {u \in BagToSet(timers) : \E n \in 0..MaxQueue : SpeakTimerFire(u, n)}}

\* speechSynthesis.cancel() runs in this step.
CancelCall == speechSynthesisRef # NoUtterance /\ (SpokenNow # {} \/ Unmount)

\* C14: a step that calls speechSynthesis.cancel() leaves in the synthesis
\* queue nothing but the utterance a speakText of the same step has added,
\* not started; and a start event fires only for an utterance that is in the
\* queue.  So nothing starts or plays between a cancel and the next speak.
C14_SilentAfterCancel ==
    /\ [][CancelCall =>
             /\ ~synthStarted'
             /\ IF SpokenNow = {} THEN synthQueue' = <<>>
                ELSE Len(synthQueue') = 1 /\ synthQueue'[1] \in SpokenNow]_vars
    /\ [][(synthStarted' /\ ~synthStarted) =>
             (synthQueue # <<>> /\ synthQueue' = synthQueue)]_vars

\* C14 witness: the cleanup has cancelled an utterance, whose end event is
\* still to come, and a later speakText is playing.
C14_Witness ==
    /\ phase = "unmounted"
    /\ synthLate > 0
    /\ synthQueue = <<Text("a")>>
    /\ Playing

----------------------------------------------------------------------------
(* Validation of the phone number *)

\* The value matches the fixed-length numeric pattern of a tel field.
MatchesTelPattern(v) == v = TenDigits

\* C15: a call of submitForm while the phone field holds a value that is not
\* a telephone number does not submit, whatever the other fields hold.
C15_InvalidPhoneRejected ==
    [][(SubmitFormCall /\ ~MatchesTelPattern(formData["phone"])) =>
          (isSubmitted' = isSubmitted /\ chatHistory' = chatHistory)]_vars

----------------------------------------------------------------------------
(* Manual edits against server updates *)

\* C16: when Save is pressed on a row into which the user has typed a text
\* since pressing Edit, the store's value of that field is the typed text
\* afterwards, whatever server updates were applied in between.
C16_SaveCommitsTypedText ==
    [][\A k \in FieldNames :
          (FormFieldSubmit(k) /\ typedText[k] # NoText) =>
              currentForm'.fields[k].value = typedText[k]]_vars

----------------------------------------------------------------------------
(* Push-to-talk with the level meter: the microphone, the audio contexts    *)
(* and the recognition session on a connection that stays up.               *)

NextTalk ==
    \/ \E engine \in BOOLEAN : Mount(FALSE, engine, FALSE)
    \/ \E s \in Sockets : SocketOpen(s)
    \/ startRecording
    \/ \E granted \in BOOLEAN : getUserMediaSettled(granted)
    \/ stopRecording
    \/ \E c \in Contexts : AudioContextClosed(c)
    \/ \E tr \in Transcripts : RecognitionResult(tr)
    \/ RecognitionError
    \/ RecognitionEnd

SpecTalk == Init /\ [][NextTalk]_vars

\* A recognition session always ends: with continuous = false the engine
\* stops by itself, and every session fires its end event.
FairSpecTalk == SpecTalk /\ WF_vars(RecognitionEnd)

\* C17: whenever the recording state is processing it is idle again later.
C17_ProcessingEnds == (recordingStatus = "processing") ~> (recordingStatus = "idle")

\* C17 witness: stop was pressed before the getUserMedia request of the
\* start had resolved, and the session it stopped is still to deliver.
C17_Witness ==
    /\ recordingStatus = "processing"
    /\ recog = "active"
    /\ micPending > 0

\* Nothing of a capture is in progress: no getUserMedia request is pending
\* and no AudioContext is on its way to closed.
CaptureSettled ==
    /\ recordingStatus = "idle"
    /\ micPending = 0
    /\ \A c \in Contexts : ctx[c] \notin {"closing", "closingThen"}

Released == streams = 0 /\ \A c \in Contexts : ctx[c] = "none"

\* The recording state returns to idle after stopRecording, or a start fails.
CaptureStopped ==
    \/ recordingStatus = "processing" /\ recordingStatus' = "idle"
    \/ getUserMediaSettled(FALSE)

\* C18: at most one media stream is open at any time, and when a stopped
\* capture or a failed start leaves the recording state idle with nothing
\* of the capture in progress, no media stream and no audio context is open.
C18_MicrophoneReleased ==
    [][/\ streams' <= 1
       /\ (CaptureStopped /\ CaptureSettled') => Released']_vars

\* C19: while the recording state is recording and the analyser is set up,
\* the next animation frame of the amplitude loop is armed.
C19_SamplerRuns ==
    (recordingStatus = "recording" /\ analyserRef /\ audioContextRef # NoContext)
        => samplerArmed

----------------------------------------------------------------------------
(* Arrival order *)

\* The only welcome so far was the first message to arrive, so the welcome
\* timer that is pending belongs to the first message.
WelcomeCameFirst ==
    /\ chatHistory # <<>>
    /\ chatHistory[1] = WelcomeEntry
    /\ WelcomeEntries(chatHistory) = 1

\* Messages that arrived after the first one and whose text went to
\* speakText in their handler.
SpokenLater == {i \in 2..Len(chatHistory) : chatHistory[i].type = "assistant"}

\* C20: every handler appends its entries at the end of the chat, and the
\* text of the first message is not handed to the synthesizer after the text
\* of a message that arrived later.
C20_ArrivalOrder ==
    /\ [][\A s \in Sockets, f \in VoiceFrames, n \in 0..MaxQueue :
             OnMessage(s, f, n) => chatHistory' = chatHistory \o HandleMessage(f).chat]_vars
    /\ [][(WelcomeSpeakCall /\ WelcomeCameFirst) => SpokenLater = {}]_vars

----------------------------------------------------------------------------
(* Recognized text on a connection that the server closes and the page      *)
(* reopens.  The level meter is left out as in the voice loop.              *)

NextChat ==
    \/ \E engine \in BOOLEAN : Mount(FALSE, engine, FALSE)
    \/ \E s \in Sockets : SocketOpen(s)
    \/ \E s \in Sockets : SocketClosing(s)
    \/ \E s \in Sockets : SocketClose(s)
    \/ ReconnectTimerFire(FALSE)
    \/ startRecording
    \/ getUserMediaSettled(FALSE)
    \/ stopRecording
    \/ \E tr \in Transcripts : RecognitionResult(tr)
    \/ RecognitionError
    \/ RecognitionEnd

SpecChat == Init /\ [][NextChat]_vars

ResultDelivered == \E tr \in Transcripts : RecognitionResult(tr)

\* C21 as stated: a recognition result delivered while the connection state
\* is connected writes exactly one chat frame with the transcript and leaves
\* the recording state idle; the frames written change in no other step.
C21_ChatFrameWhenConnected ==
    /\ [][\A tr \in Transcripts :
             (RecognitionResult(tr) /\ connectionStatus = "connected") =>
                 /\ chatSent' = Append(chatSent, ChatFrame(tr, wsRef))
                 /\ recordingStatus' = "idle"]_vars
    /\ [][chatSent' # chatSent => ResultDelivered]_vars

\* C21 amended: a recognition result delivered while wsRef holds a socket
\* whose readyState is OPEN writes exactly one chat frame with the transcript
\* to that socket; delivered at any other time it writes none; either way the
\* recording state is idle afterwards, and the frames written change in no
\* other step.
C21_ChatFrameWhenOpen ==
    /\ [][\A tr \in Transcripts :
             RecognitionResult(tr) =>
                 /\ SocketIsOpen => chatSent' = Append(chatSent, ChatFrame(tr, wsRef))
                 /\ ~SocketIsOpen => chatSent' = chatSent
                 /\ recordingStatus' = "idle"]_vars
    /\ [][chatSent' # chatSent => ResultDelivered]_vars

\* C21 witness: the user talked on a reopened connection, released the
\* button, and the result has written its one frame to the open socket.
C21_Witness ==
    /\ Len(chatSent) = 1
    /\ chatSent[1].message = "hi"
    /\ chatSent[1].sock = wsRef
    /\ connectSeq = 2
    /\ SocketIsOpen
    /\ recog = "resulted"
    /\ recordingStatus = "idle"

----------------------------------------------------------------------------
(* The two envelopes of a form submission, in every state of the form, the  *)
(* chat and the playback.                                                   *)

TypedSubmitFrame ==
    Frame("object", Obj("form_update", "form_submitted", Undef, Undef, Undef, Undef, Undef))

\* action at the top level: the type is absent or is none the handler knows
TopLevelSubmitFrames ==
    {Frame("object", Obj(t, "form_submitted", Undef, Undef, Undef, Undef, Undef)) :
        t \in {Undef, "bogus"}}

EnvelopeFrames ==
    {TypedSubmitFrame} \cup TopLevelSubmitFrames
    \cup {Frame("object", Obj("form_update", "field_updated", Undef, Undef, "name", "v1", Undef)),
          Frame("object", Obj(Undef, "assistant_response", Undef, Undef, Undef, Undef, "a"))}

NextEnvelope ==
    \/ \E engine \in BOOLEAN : Mount(FALSE, engine, FALSE)
    \/ \E s \in Sockets : SocketOpen(s)
    \/ \E s \in Sockets, f \in EnvelopeFrames, n \in 0..MaxQueue :
          ChatRoom(f, MaxChat) /\ OnMessage(s, f, n)
    \/ UtteranceStart
    \/ UtteranceEnd
    \/ CancelledUtteranceEnd

SpecEnvelope == Init /\ [][NextEnvelope]_vars

SubmittedEntry == ChatEntry("assistant", SubmittedText)

\* C22: in every state a step is the handling of the form_update envelope of
\* a submission exactly when it is the handling of the top-level envelope, so
\* from one state both lead to one state; that step sets the submitted flag,
\* appends the one confirmation entry, hands the one confirmation text to
\* speakText, arms no timer and writes no form field.
C22_EnvelopesEquivalent ==
    [][\A s \in Sockets, n \in 0..MaxQueue, g \in TopLevelSubmitFrames :
          /\ OnMessage(s, TypedSubmitFrame, n) <=> OnMessage(s, g, n)
          /\ OnMessage(s, g, n) =>
                /\ isSubmitted'
                /\ chatHistory' = Append(chatHistory, SubmittedEntry)
                /\ speechSynthesisRef' = SubmittedText
                /\ synthQueue'[Len(synthQueue')] = SubmittedText
                /\ Len(synthQueue') <= Len(synthQueue) + 1
                /\ UNCHANGED <<formData, timers, uncaught>>]_vars

\* C22 witness: a submission envelope arrived on a form with a field set,
\* over an utterance that was playing; its confirmation is now being spoken.
C22_Witness ==
    /\ isSubmitted
    /\ formData["name"] = "v1"
    /\ chatHistory = <<ChatEntry("assistant", Text("a")), SubmittedEntry>>
    /\ synthQueue = <<SubmittedText>>
    /\ synthLate > 0
    /\ Playing

----------------------------------------------------------------------------
(* Amplitudes shown to the user *)

ByteMax == 255

\* What getByteFrequencyData can leave in dataArray (bufferLength is not 0)
ByteBuffers == SeqsUpTo({0, 128, ByteMax}, MaxBuffer) \ {<<>>}

\* average / 255 of updateAudioLevel, as a fraction
AudioLevelOf(dataArray) == [num |-> SumSeq(dataArray), den |-> Len(dataArray) * ByteMax]

\* The fraction is a number of [0, 1]
InUnitRange(q) == q.den > 0 /\ 0 <= q.num /\ q.num <= q.den

\* C23: the amplitude of the RTVI interface lies in [0, 1], and so does the
\* audio level of the page, which updateAudioLevel computes in [0, 1] from
\* every buffer of bytes.
C23_AmplitudeInUnitRange ==
    /\ InUnitRange(amplitude)
    /\ audioLevel \in 0..ByteMax
    /\ \A dataArray \in ByteBuffers : InUnitRange(AudioLevelOf(dataArray))

----------------------------------------------------------------------------
(* Listening and the connection in the RTVI interface *)

\* C25: in every state isListening implies isConnected, and the step of
\* onDisconnected leaves isListening and isProcessing false.
C25_ListeningImpliesConnected ==
    /\ [](isListening => isConnected)
    /\ [][onDisconnected => (~isListening' /\ ~isProcessing')]_vars

----------------------------------------------------------------------------
(* A whole session of the form: the server fills, clears and submits, the   *)
(* user submits, the capture handlers are called in every state, and the    *)
(* connection is lost and made again.  The level meter is left out as in    *)
(* the voice loop.                                                          *)

FieldUpdate(t, a, f, v) == Frame("object", Obj(t, a, Undef, Undef, f, v, Undef))

SessionFrames ==
    {FieldUpdate("form_update", "field_updated", f, "v1") : f \in Fields \cup {"email", Undef}}
    \cup {FieldUpdate("form_update", "field_updated", "name", ""),
          FieldUpdate("form_update", "bogus", "name", "v1"),
          FieldUpdate("form_update", Undef, Undef, Undef)}
    \cup {TypedSubmitFrame} \cup TopLevelSubmitFrames

NextSession ==
    \/ \E engine \in BOOLEAN : Mount(FALSE, engine, FALSE)
    \/ \E s \in Sockets : SocketOpen(s)
    \/ \E s \in Sockets : SocketClose(s)
    \/ ReconnectTimerFire(FALSE)
    \/ \E s \in Sockets, f \in SessionFrames, n \in 0..MaxQueue :
          ChatRoom(f, MaxChat) /\ OnMessage(s, f, n)
    \/ SubmitClick
    \/ StartRecordingCall
    \/ getUserMediaSettled(FALSE)
    \/ StopRecordingCall
    \/ RecognitionEnd

SpecSession == Init /\ [][NextSession]_vars

\* C24: whenever the form is submitted, name, phone and jobTitle all hold a
\* non-empty value.
C24_SubmittedIsFilled == isSubmitted => IsValid

----------------------------------------------------------------------------
(* The speaking flag and the utterance reference *)

\* C26: isAISpeaking is true exactly while the head of the synthesis queue
\* is playing, speechSynthesisRef is set exactly while the queue holds an
\* utterance, and the late end or error event of a cancelled utterance
\* changes neither while another utterance is queued or playing.
C26_SpeakingFlagExact ==
    /\ [](isAISpeaking <=> Playing)
    /\ []((speechSynthesisRef # NoUtterance) <=> (synthQueue # <<>>))
    /\ [][(CancelledUtteranceEnd /\ synthQueue # <<>>) =>
             UNCHANGED <<isAISpeaking, speechSynthesisRef>>]_vars

----------------------------------------------------------------------------
(* The connection from a single connect call: the page is mounted once,     *)
(* sockets open, fail and close from either end, and the timer reconnects.  *)

NextSingle ==
    \/ \E engine \in BOOLEAN, throws \in BOOLEAN : Mount(FALSE, engine, throws)
    \/ Unmount
    \/ \E s \in Sockets : SocketOpen(s)
    \/ \E s \in Sockets : SocketClosing(s)
    \/ \E s \in Sockets : SocketError(s)
    \/ \E s \in Sockets : SocketClose(s)
    \/ \E throws \in BOOLEAN : ReconnectTimerFire(throws)

SpecSingle == Init /\ [][NextSingle]_vars

LiveSockets == {s \in Sockets : Live(s)}

\* onopen has run on the socket and onclose has not
Opened(s) == sock[s] \in {"open", "closing"}

----------------------------------------------------------------------------
(* The fields of the form *)

\* A form_update frame that names no field of the form, or whose action is
\* neither field_updated nor form_submitted
ForeignUpdate(f) ==
    /\ f.data.type = "form_update"
    /\ \/ f.data.field \notin Fields
       \/ f.data.action \notin {"field_updated", "form_submitted"}

\* C28: the handler of a form_update frame whose field is missing or is none
\* of name, phone and jobTitle, or whose action is neither field_updated nor
\* form_submitted, leaves the form data as it was: no key more, no value
\* changed.
C28_FixedFieldSet ==
    [][\A s \in Sockets, n \in 0..MaxQueue, f \in {g \in SessionFrames : ForeignUpdate(g)} :
          OnMessage(s, f, n) => formData' = formData]_vars

----------------------------------------------------------------------------
(* The capture handlers called in every state: before and after the socket  *)
(* is open, with and without an engine, during a capture, and after the     *)
(* form is submitted.                                                       *)

NextGuards ==
    \/ \E engine \in BOOLEAN : Mount(FALSE, engine, FALSE)
    \/ \E s \in Sockets : SocketOpen(s)
    \/ \E s \in Sockets : SocketClose(s)
    \/ ReconnectTimerFire(FALSE)
    \/ \E s \in Sockets, n \in 0..MaxQueue :
          ChatRoom(TypedSubmitFrame, MaxChat) /\ OnMessage(s, TypedSubmitFrame, n)
    \/ StartRecordingCall
    \/ StopRecordingCall
    \/ \E granted \in BOOLEAN : getUserMediaSettled(granted)
    \/ \E c \in Contexts : AudioContextClosed(c)
    \/ RecognitionEnd

SpecGuards == Init /\ [][NextGuards]_vars

\* The first line of startRecording lets the call through.
MayStart ==
    /\ recordingStatus = "idle"
    /\ connectionStatus = "connected"
    /\ ~isSubmitted
    /\ recognition

\* C29: a call of startRecording changes nothing unless the recording state
\* is idle, the connection state is connected, the form is not submitted and
\* an engine exists; a call of stopRecording changes nothing unless the
\* recording state is recording.
C29_GuardsAreNoOps ==
    /\ [][(StartRecordingCall /\ ~MayStart) => UNCHANGED vars]_vars
    /\ [][(StopRecordingCall /\ recordingStatus # "recording") => UNCHANGED vars]_vars

\* C29 witness: after a capture that obtained its stream, the form has been
\* submitted on an open connection with an engine and an idle recorder, and
\* startRecording can be called.
C29_Witness ==
    /\ isSubmitted
    /\ connectionStatus = "connected"
    /\ recognition
    /\ recordingStatus = "idle"
    /\ recog = "inactive"
    /\ streams = 1
    /\ ENABLED StartRecordingCall

----------------------------------------------------------------------------
(* After the submission *)

\* A capture starts in this step.
CaptureStarts ==
    \/ recordingStatus # "recording" /\ recordingStatus' = "recording"
    \/ recog # "active" /\ recog' = "active"
    \/ micPending' > micPending

\* C30: no step takes isSubmitted from true to false, whatever reconnects
\* and inbound frames follow the submission, and no step starts a capture
\* once it is true.
C30_SubmittedForGood ==
    /\ [][isSubmitted => isSubmitted']_vars
    /\ [][isSubmitted => ~CaptureStarts]_vars

\* C30 witness: the user submitted the filled form; later the server cleared
\* the name and sent its own form_submitted; the connection in use is not
\* the first one, and the recorder is idle with an engine at hand.
C30_Witness ==
    /\ isSubmitted
    /\ Len(chatHistory) = 2
    /\ chatHistory[1].message[1] = "thank_you"
    /\ chatHistory[2] = SubmittedEntry
    /\ formData["name"] = ""
    /\ connectSeq = 2
    /\ connectionStatus = "connected"
    /\ recognition
    /\ recordingStatus = "idle"

====
